---- MODULE Spec2Model ----
(***************************************************************************)
(* The dog food timer (src/code.py): a debounced lid monitor, an           *)
(* escalating alarm and the timer that drives both from one polling loop.  *)
(*                                                                         *)
(* One step of the model is one iteration of the main loop:                *)
(*     while True:                                                         *)
(*         try: timer()                                                    *)
(*         except: pass                                                    *)
(* The inputs of an iteration are the clock reading, the accelerometer     *)
(* sample, the set of pressed buttons, the slide switch and the order in   *)
(* which Python iterates the set of new presses.  The clock is read once   *)
(* per iteration: every self.now() of one iteration returns the same       *)
(* value.                                                                  *)
(*                                                                         *)
(* The methods are operators from a world record                           *)
(*   [lid, alarm, timer, cp, obs, ret, exc]                                *)
(* to a world record; ret is the value a method returns, exc is TRUE once  *)
(* an exception is propagating, obs records what the iteration did.        *)
(***************************************************************************)
EXTENDS Integers, Sequences, FiniteSets, TLC

VARIABLES now, lid, alarm, timer, cp, obs, twin

vars == <<now, lid, alarm, timer, cp, obs, twin>>

(***************************************************************************)
(* Program constants.                                                      *)
(***************************************************************************)
\* Python's None, for the fields that hold a state or a time.
None == -1

RAISED == 1

LOWERED == 2

one_hour_ms == 3600000

debounce_threshold_ms == 100

visible_alarm_interval_ms == 1000

audible_alarm_interval_max_ms == 3600 * 1000

audible_alarm_interval_min_ms == 60 * 1000

beep_on_time_ms == 600

beep_off_time_ms == 1000

n_beeps == 3

yellow_threshold_ms == one_hour_ms * 4

red_threshold_ms == one_hour_ms * 8

alarm_threshold_ms == one_hour_ms * 12

HistoryCapacity == 10

(***************************************************************************)
(* Bounds of the exploration.                                              *)
(***************************************************************************)
\* The clock reading when Timer() is constructed (post() sleeps 2 s first).
BootTime == 2000

\* The lid specification reads the clock on a grid of this many 50 ms steps.
MaxLidSteps == 10

\* The timer specification reads the clock up to this many hours after boot.
MaxHours == 14

\* The alarm specification reads the clock up to this many hours after the
\* alarm threshold has passed.
MaxAlarmHours == 7

\* The beep specification reads the clock on a grid of this many 200 ms
\* steps from one second after the alarm threshold.
MaxBeepSteps == 10

\* The button specification reads the clock on the full hours up to this
\* many hours after boot.
MaxButtonHours == 6

\* The bounce specification reads the clock every 50 ms for this many
\* steps from boot.
MaxBounceSteps == 15

\* The pattern specification reads the clock every millisecond for this
\* many milliseconds from each of the first two audible firings.
MaxPatternMs == 5000

\* The wrap specification gives the clock this many bits and reads it on
\* the full hours up to MaxWrapHours after boot.
ClockBits == 29
MaxWrapHours == 14

\* The snooze specification reads the clock on a grid of this many half
\* hours from the alarm threshold.
MaxSnoozeSteps == 20

Abs(x) == IF x < 0 THEN -x ELSE x

Max(a, b) == IF a >= b THEN a ELSE b

\* Python truthiness of an optional time: None and 0 are false.
Truthy(x) == x # None /\ x # 0

(***************************************************************************)
(* Lid                                                                     *)
(***************************************************************************)
Lid_init ==
  [state |-> None, pending_state |-> None, pending_time |-> None,
   new_state |-> None]

\* Lines 96-103: the classification of one acceleration sample; None when
\* neither rule matches.
Classify(acc) ==
  LET x == Abs(acc[1])
      y == Abs(acc[2])
      z == Abs(acc[3])
      raised == z < 4 /\ x + y > 4
      lowered == z >= 4 /\ x + y <= 4
  IN  IF raised THEN RAISED ELSE IF lowered THEN LOWERED ELSE None

\* A debounce comparison that accepts a candidate of any age.
DebounceElapsed_AnyAge(t, pending_time) == t - pending_time >= 0

\* A debounce comparison that needs more than the threshold.
DebounceElapsed_Strict(t, pending_time) ==
  t - pending_time > debounce_threshold_ms

\* The debounce comparison of line 111.
DebounceElapsed(t, pending_time) == t - pending_time >= debounce_threshold_ms

\* Lines 107-118: the debounce step for a classified sample cur at time t.
Lid_debounce(l, cur, t) ==
  IF cur = l.state
    THEN [l EXCEPT !.pending_state = None, !.pending_time = None]
  ELSE IF cur = l.pending_state
    THEN IF DebounceElapsed(t, l.pending_time)
           THEN [l EXCEPT !.state = l.pending_state, !.pending_state = None,
                          !.pending_time = None, !.new_state = l.pending_state]
           ELSE l
  ELSE [l EXCEPT !.pending_state = cur, !.pending_time = t]

\* Whether the else branch of lines 104-106 completes.  It evaluates
\* self.now() - start, and start is assigned nowhere (line 95 is commented
\* out): the branch raises NameError.
IndeterminateBranchReturns == FALSE

\* Lid.update_state: an unclassified sample leaves the lid alone and raises.
Lid_update_state(w, acc, t) ==
  LET cur == Classify(acc)
  IN  IF cur = None
        THEN IF IndeterminateBranchReturns THEN w ELSE [w EXCEPT !.exc = TRUE]
        ELSE LET l2 == Lid_debounce(w.lid, cur, t)
             IN  [w EXCEPT !.lid = l2,
                           !.obs.promoted =
                              IF l2.state # w.lid.state THEN l2.state ELSE None]

\* An edge query that leaves the edge in place.
ConsumeEdge_Keep(l) == l

\* The clearing of the one-shot edge in Lid.__call__ (line 137).
ConsumeEdge(l) == [l EXCEPT !.new_state = None]

\* Lid.__call__: ret is TRUE exactly when a promotion into RAISED is pending.
Lid_call(w, acc, t) ==
  LET w1 == Lid_update_state(w, acc, t)
  IN  IF w1.exc THEN w1
      ELSE [w1 EXCEPT !.lid = ConsumeEdge(w1.lid),
                      !.ret = (w1.lid.new_state = RAISED),
                      !.obs.edge = (w1.lid.new_state = RAISED)]

(***************************************************************************)
(* Alarm                                                                   *)
(***************************************************************************)
\* The fields Alarm.__init__ leaves behind: beep_state, then reset().
Alarm_init ==
  [alarm_state |-> FALSE, led_state |-> TRUE,
   next_visible_alarm_time_ms |-> 0, next_audible_alarm_time_ms |-> 0,
   audible_alarm_interval_ms |-> audible_alarm_interval_max_ms,
   beep_state |-> FALSE, actually_beeping |-> FALSE,
   next_beep_update_time_ms |-> 0, beep_num |-> 0]

\* Timer.set_color: the pixels are written only when the colour changes.
Timer_set_color(w, color) ==
  IF color = w.timer.color THEN w
  ELSE [w EXCEPT !.timer.color = color, !.cp.pixels = color]

\* A beep_set that does nothing at all while the switch is engaged.
Alarm_beep_set_MuteSkips(w, state, sw) ==
  IF sw \/ state = w.alarm.beep_state
    THEN w
    ELSE LET w1 == IF state
                     THEN [w EXCEPT !.alarm.actually_beeping = TRUE,
                                    !.cp.tone = TRUE,
                                    !.obs.start_tone = TRUE]
                   ELSE IF w.alarm.actually_beeping
                     THEN [w EXCEPT !.alarm.actually_beeping = FALSE,
                                    !.cp.tone = FALSE,
                                    !.obs.stop_tone = TRUE]
                   ELSE w
         IN  [w1 EXCEPT !.alarm.beep_state = state]

\* Alarm.beep_set; sw is cp.switch, read when a tone is about to start.
Alarm_beep_set(w, state, sw) ==
  IF state # w.alarm.beep_state
    THEN LET w1 == IF state
                     THEN IF ~sw
                            THEN [w EXCEPT !.alarm.actually_beeping = TRUE,
                                           !.cp.tone = TRUE,
                                           !.obs.start_tone = TRUE]
                            ELSE w
                   ELSE IF w.alarm.actually_beeping
                     THEN [w EXCEPT !.alarm.actually_beeping = FALSE,
                                    !.cp.tone = FALSE,
                                    !.obs.stop_tone = TRUE]
                   ELSE w
         IN  [w1 EXCEPT !.alarm.beep_state = state]
    ELSE w

\* Alarm.reset: the assignments of lines 159-167, in their order, then
\* beep_set(False) on the record they leave.
Alarm_reset(w, sw) ==
  LET w1 == [w EXCEPT !.alarm.alarm_state = FALSE,
                      !.alarm.led_state = TRUE,
                      !.alarm.next_visible_alarm_time_ms = 0,
                      !.alarm.next_audible_alarm_time_ms = 0,
                      !.alarm.audible_alarm_interval_ms =
                         audible_alarm_interval_max_ms,
                      !.alarm.beep_state = FALSE,
                      !.alarm.actually_beeping = FALSE,
                      !.alarm.next_beep_update_time_ms = 0,
                      !.alarm.beep_num = 0,
                      !.obs.deactivated = TRUE]
  IN  Alarm_beep_set(w1, FALSE, sw)

\* Alarm.trigger.
Alarm_trigger(w, t) ==
  [w EXCEPT !.alarm.alarm_state = TRUE,
            !.alarm.next_visible_alarm_time_ms = t,
            !.alarm.next_audible_alarm_time_ms = t,
            !.obs.triggered = TRUE,
            !.obs.triggers = @ + 1]

\* A halving without the floor.
NextInterval_NoFloor(interval) == interval \div 2

\* Line 189.  Python's / is exact on every value the interval takes
\* (3600000, 1800000, ..., 112500, 60000), so integer division models it.
NextInterval(interval) == Max(interval \div 2, audible_alarm_interval_min_ms)

\* Lines 187-192: an audible firing that is due.
Alarm_fire(w, t, sw) ==
  IF t >= w.alarm.next_audible_alarm_time_ms
    THEN LET w1 == [w EXCEPT !.alarm.next_audible_alarm_time_ms =
                                @ + w.alarm.audible_alarm_interval_ms,
                             !.alarm.audible_alarm_interval_ms =
                                NextInterval(w.alarm.audible_alarm_interval_ms),
                             !.alarm.next_beep_update_time_ms = t,
                             !.obs.fired = TRUE]
             w2 == Alarm_beep_set(w1, FALSE, sw)
         IN  [w2 EXCEPT !.alarm.beep_num = 0]
    ELSE w

\* A beep pattern that ends after one beep more.
Alarm_beep_step_OneMore(w, t, sw) ==
  IF w.alarm.next_beep_update_time_ms # 0
     /\ t >= w.alarm.next_beep_update_time_ms
    THEN IF w.alarm.beep_state
           THEN LET w1 == Alarm_beep_set(w, FALSE, sw)
                    n == w1.alarm.beep_num + 1
                IN  IF n > n_beeps
                      THEN [w1 EXCEPT !.alarm.next_beep_update_time_ms = 0,
                                      !.alarm.beep_num = 0]
                      ELSE [w1 EXCEPT !.alarm.beep_num = n,
                                      !.alarm.next_beep_update_time_ms =
                                         @ + beep_off_time_ms]
           ELSE LET w1 == Alarm_beep_set(w, TRUE, sw)
                IN  [w1 EXCEPT !.alarm.next_beep_update_time_ms =
                                  @ + beep_on_time_ms]
    ELSE w

\* Lines 194-205: one step of the beep pattern.
Alarm_beep_step(w, t, sw) ==
  IF w.alarm.next_beep_update_time_ms # 0
     /\ t >= w.alarm.next_beep_update_time_ms
    THEN IF w.alarm.beep_state
           THEN LET w1 == Alarm_beep_set(w, FALSE, sw)
                    n == w1.alarm.beep_num + 1
                IN  IF n >= n_beeps
                      THEN [w1 EXCEPT !.alarm.next_beep_update_time_ms = 0,
                                      !.alarm.beep_num = 0]
                      ELSE [w1 EXCEPT !.alarm.beep_num = n,
                                      !.alarm.next_beep_update_time_ms =
                                         @ + beep_off_time_ms]
           ELSE LET w1 == Alarm_beep_set(w, TRUE, sw)
                IN  [w1 EXCEPT !.alarm.next_beep_update_time_ms =
                                  @ + beep_on_time_ms]
    ELSE w

\* Alarm.update_beep.
Alarm_update_beep(w, t, sw) == Alarm_beep_step(Alarm_fire(w, t, sw), t, sw)

\* Alarm.update_lights.
Alarm_update_lights(w, t) ==
  IF t >= w.alarm.next_visible_alarm_time_ms
    THEN LET led == ~w.alarm.led_state
             w1 == [w EXCEPT !.alarm.next_visible_alarm_time_ms =
                                @ + visible_alarm_interval_ms,
                             !.alarm.led_state = led]
         IN  Timer_set_color(w1, IF led THEN "red" ELSE "off")
    ELSE w

\* A trigger on every call that asks the alarm on.
NeedsTrigger_Always(w, alarm_state) == alarm_state

\* Line 217: trigger() runs when the alarm is asked on and is not on.
NeedsTrigger(w, alarm_state) == alarm_state /\ ~w.alarm.alarm_state

\* Alarm.__call__.
Alarm_call(w, alarm_state, t, sw) ==
  LET w1 == IF NeedsTrigger(w, alarm_state) THEN Alarm_trigger(w, t) ELSE w
      w2 == [w1 EXCEPT !.alarm.alarm_state = alarm_state]
  IN  IF ~alarm_state
        THEN Alarm_reset(w2, sw)
        ELSE Alarm_update_lights(Alarm_update_beep(w2, t, sw), t)

(***************************************************************************)
(* Timer                                                                   *)
(***************************************************************************)
\* What Timer.__init__ leaves behind at clock reading t: post() ends with
\* the pixels off.
Timer_init(t) ==
  [color |-> "off", history |-> <<>>, last_raised_time |-> t,
   prev_presses |-> {}]

\* The record of a call of undo: the baseline and the history it found
\* (w) and left (w1), and what it returned.
Undo_obs(w, w1) ==
  [ran |-> TRUE, from |-> w.timer.last_raised_time,
   hist |-> w.timer.history, to |-> w1.timer.last_raised_time,
   hist_to |-> w1.timer.history, ret |-> w1.ret]

\* An undo that takes the oldest entry.
Timer_undo_PopsOldest(w, quiet) ==
  LET w0 == [w EXCEPT !.obs.snooze_at = None, !.obs.events = TRUE]
      w1 == IF Len(w0.timer.history) > 0
              THEN [w0 EXCEPT !.ret = w0.timer.last_raised_time,
                              !.timer.last_raised_time = w0.timer.history[1],
                              !.timer.history = Tail(w0.timer.history)]
              ELSE [w0 EXCEPT !.ret = None]
  IN  [w1 EXCEPT !.obs.undo = Undo_obs(w, w1)]

\* An undo that reads the newest entry and leaves it in the history.
Timer_undo_KeepsEntry(w, quiet) ==
  LET w0 == [w EXCEPT !.obs.snooze_at = None, !.obs.events = TRUE]
      w1 == IF Len(w0.timer.history) > 0
              THEN [w0 EXCEPT !.ret = w0.timer.last_raised_time,
                              !.timer.last_raised_time =
                                 w0.timer.history[Len(w0.timer.history)]]
              ELSE [w0 EXCEPT !.ret = None]
  IN  [w1 EXCEPT !.obs.undo = Undo_obs(w, w1)]

\* Timer.undo: ret is the baseline given up, None when the history is empty.
Timer_undo(w, quiet) ==
  LET w0 == [w EXCEPT !.obs.snooze_at = None, !.obs.events = TRUE]
      w1 == IF Len(w0.timer.history) > 0
              THEN [w0 EXCEPT !.ret = w0.timer.last_raised_time,
                              !.timer.last_raised_time =
                                 w0.timer.history[Len(w0.timer.history)],
                              !.timer.history =
                                 SubSeq(w0.timer.history, 1,
                                        Len(w0.timer.history) - 1)]
              ELSE [w0 EXCEPT !.ret = None]
  IN  [w1 EXCEPT !.obs.undo = Undo_obs(w, w1)]

\* A cut that keeps the oldest entries.
Newest_KeepsOldest(h) ==
  IF Len(h) > HistoryCapacity THEN SubSeq(h, 1, HistoryCapacity) ELSE h

\* Line 295: self.history[-10:].
Newest(h) ==
  IF Len(h) > HistoryCapacity
    THEN SubSeq(h, Len(h) - HistoryCapacity + 1, Len(h))
    ELSE h

\* A record_time that takes the clock reading whatever it is given.
Timer_record_time_Now(w, raised_time, t) ==
  [w EXCEPT !.timer.history =
               Newest(Append(w.timer.history, w.timer.last_raised_time)),
            !.timer.last_raised_time = t]

\* Timer.record_time; raised_time None stands for the default argument.
Timer_record_time(w, raised_time, t) ==
  LET rt == IF Truthy(raised_time) THEN raised_time ELSE t
  IN  [w EXCEPT !.timer.history =
                   Newest(Append(w.timer.history, w.timer.last_raised_time)),
                !.timer.last_raised_time = rt]

\* A snooze that is refused at exactly the alarm threshold too.
SnoozeTooEarly_AtThreshold(elapsed) == elapsed <= alarm_threshold_ms

\* Line 306: the elapsed time at which snooze returns without snoozing.
SnoozeTooEarly(elapsed) == elapsed < alarm_threshold_ms

\* A snooze baseline a whole alarm threshold back: no grace.
SnoozeBaseline_NoGrace(t) == t - alarm_threshold_ms

\* Line 311: the baseline a snooze at time t records.
SnoozeBaseline(t) == t - (alarm_threshold_ms - one_hour_ms)

\* Timer.snooze.
Timer_snooze(w, t) ==
  LET w1 == IF w.lid.state = RAISED
              THEN Timer_undo(w, TRUE)
              ELSE [w EXCEPT !.ret = None, !.obs.snooze_at = None,
                             !.obs.events = TRUE]
      undone_time == w1.ret
      elapsed == t - w1.timer.last_raised_time
      w2 == [w1 EXCEPT !.obs.snooze_ran = TRUE,
                       !.obs.snooze_elapsed = elapsed,
                       !.obs.snooze_entry = w.timer.last_raised_time,
                       !.obs.snooze_hist = w.timer.history,
                       !.obs.snooze_from = w1.timer.last_raised_time]
      w3 == IF SnoozeTooEarly(elapsed)
              THEN IF Truthy(undone_time)
                     THEN Timer_record_time(w2, undone_time, t)
                     ELSE w2
              ELSE [Timer_record_time(w2, SnoozeBaseline(t), t)
                      EXCEPT !.obs.snoozed = TRUE, !.obs.snooze_at = t]
  IN  [w3 EXCEPT !.obs.snooze_to = w3.timer.last_raised_time,
                 !.obs.snooze_hist_to = w3.timer.history]

\* Thresholds that are reached rather than exceeded.
Severity_Reached(delta) ==
  IF delta >= alarm_threshold_ms THEN "alarm"
  ELSE IF delta >= red_threshold_ms THEN "red"
  ELSE IF delta >= yellow_threshold_ms THEN "yellow"
  ELSE "green"

\* Lines 326-333: the branch update_lights takes for an elapsed time.
Severity(delta) ==
  IF delta > alarm_threshold_ms THEN "alarm"
  ELSE IF delta > red_threshold_ms THEN "red"
  ELSE IF delta > yellow_threshold_ms THEN "yellow"
  ELSE "green"

\* Timer.update_lights.
Timer_update_lights(w, t, sw) ==
  IF w.lid.state = RAISED
    THEN [Timer_set_color(w, "off") EXCEPT !.obs.sev = "off"]
    ELSE LET sev == Severity(t - w.timer.last_raised_time)
             w1 == [w EXCEPT !.obs.sev = sev]
         IN  IF sev = "alarm"
               THEN Alarm_call(w1, TRUE, t, sw)
               ELSE Timer_set_color(w1, sev)

\* Lines 340-343: the action of one newly pressed button.
Timer_button(w, button, t) ==
  LET w0 == [w EXCEPT !.obs.actions = @ \cup {button}]
  IN  IF button = "a" THEN Timer_undo(w0, FALSE) ELSE Timer_snooze(w0, t)

\* A poll that acts on every pressed button, held or not.
Timer_handle_buttons_Level(w, t, presses, order) ==
  LET w0 == [w EXCEPT !.timer.prev_presses = presses, !.obs.polled = TRUE,
                      !.obs.new_presses = presses]
      w1 == IF order[1] \in presses
              THEN Timer_button(w0, order[1], t) ELSE w0
  IN  IF order[2] \in presses THEN Timer_button(w1, order[2], t) ELSE w1

\* Timer.handle_buttons; order is the order in which the for loop visits
\* the set new_presses.
Timer_handle_buttons(w, t, presses, order) ==
  LET new_presses == presses \ w.timer.prev_presses
      w0 == [w EXCEPT !.timer.prev_presses = presses, !.obs.polled = TRUE,
                      !.obs.new_presses = new_presses]
      w1 == IF order[1] \in new_presses
              THEN Timer_button(w0, order[1], t) ELSE w0
  IN  IF order[2] \in new_presses THEN Timer_button(w1, order[2], t) ELSE w1

\* A lid raise that resets the alarm and records nothing.
Timer_lid_raised_NoRecord(w, t, sw) ==
  [Alarm_call(w, FALSE, t, sw)
     EXCEPT !.obs.snooze_at = None, !.obs.events = TRUE]

\* Lines 351-353: a new RAISED edge resets the alarm and records the time.
Timer_lid_raised(w, t, sw) ==
  LET w1 == Alarm_call(w, FALSE, t, sw)
  IN  [Timer_record_time(w1, None, t)
         EXCEPT !.obs.snooze_at = None, !.obs.events = TRUE]

\* Timer.__call__, up to the first exception.
Timer_call(w, t, acc, presses, sw, order) ==
  LET w1 == Lid_call(w, acc, t)
  IN  IF w1.exc THEN w1
      ELSE LET w2 == IF w1.ret THEN Timer_lid_raised(w1, t, sw) ELSE w1
               w3 == Timer_update_lights(w2, t, sw)
           IN  Timer_handle_buttons(w3, t, presses, order)

(***************************************************************************)
(* The main loop                                                           *)
(***************************************************************************)
\* What one iteration did (reset at its start), and what has happened since
\* boot: triggers counts trigger() calls, promotions the promotions into
\* RAISED, edges the TRUE results of lid(); run_cls and run_start are the
\* classification and the time of the first sample of the current run of
\* equally classified samples; snooze_at is the time of a snooze that no
\* undo, snooze press or lid raise has followed; events is TRUE once a lid
\* raise was recorded or a button action ran.  Of a snooze press,
\* snooze_entry is the baseline when snooze() was entered, snooze_from the
\* baseline after its quiet undo, snooze_elapsed the elapsed time it
\* compared, snooze_to the baseline when it returned, snoozed whether it
\* recorded the snooze baseline, snooze_hist and snooze_hist_to the history
\* when it was entered and when it returned.  undo is the record of the
\* last call of undo() in the iteration, actions the buttons whose action
\* the poll of the iteration ran.
Obs_init ==
  [fault |-> FALSE, cur |-> None, restarted |-> FALSE, promoted |-> None,
   edge |-> FALSE, sev |-> "none", triggered |-> FALSE, fired |-> FALSE,
   deactivated |-> FALSE, start_tone |-> FALSE, stop_tone |-> FALSE,
   snooze_ran |-> FALSE, snoozed |-> FALSE, snooze_elapsed |-> None,
   snooze_from |-> None, snooze_entry |-> None, snooze_to |-> None,
   snooze_hist |-> <<>>, snooze_hist_to |-> <<>>,
   undo |-> [ran |-> FALSE, from |-> None, hist |-> <<>>, to |-> None,
             hist_to |-> <<>>, ret |-> None],
   polled |-> FALSE, new_presses |-> {}, actions |-> {},
   triggers |-> 0, promotions |-> 0, edges |-> 0, run_cls |-> None,
   run_start |-> None, snooze_at |-> None, events |-> FALSE]

Obs_start(o, cur, t) ==
  LET restart == cur # None /\ cur # o.run_cls
  IN  [Obs_init EXCEPT !.cur = cur,
                       !.restarted = restart,
                       !.triggers = o.triggers,
                       !.promotions = o.promotions,
                       !.edges = o.edges,
                       !.run_cls = IF restart THEN cur ELSE o.run_cls,
                       !.run_start = IF restart THEN t ELSE o.run_start,
                       !.snooze_at = o.snooze_at,
                       !.events = o.events]

Obs_end(w) ==
  [w.obs EXCEPT !.fault = w.exc,
                !.promotions = IF w.obs.promoted = RAISED THEN @ + 1 ELSE @,
                !.edges = IF w.obs.edge THEN @ + 1 ELSE @]

\* twin is a second run of the program from the same boot: its lid, alarm,
\* timer and board, the switch value of its last iteration and whether
\* that iteration started a tone.
Twin_init ==
  [lid |-> Lid_init, alarm |-> Alarm_init, timer |-> Timer_init(BootTime),
   cp |-> [tone |-> FALSE, pixels |-> "off"], switch |-> FALSE,
   start_tone |-> FALSE]

Init ==
  /\ now = BootTime
  /\ lid = Lid_init
  /\ alarm = Alarm_init
  /\ timer = Timer_init(BootTime)
  /\ cp = [tone |-> FALSE, pixels |-> "off"]
  /\ obs = Obs_init
  /\ twin = Twin_init

\* One iteration of the loop of lines 385-389 at clock reading t, with
\* acceleration sample acc, pressed buttons presses and switch sw.  The
\* bare except keeps whatever the call changed before it raised.
Run(t, acc, presses, sw, order) ==
  LET w0 == [lid |-> lid, alarm |-> alarm, timer |-> timer, cp |-> cp,
             obs |-> Obs_start(obs, Classify(acc), t),
             ret |-> FALSE, exc |-> FALSE]
      w1 == Timer_call(w0, t, acc, presses, sw, order)
  IN  /\ now' = t
      /\ lid' = w1.lid
      /\ alarm' = w1.alarm
      /\ timer' = w1.timer
      /\ cp' = w1.cp
      /\ obs' = Obs_end(w1)

\* The same iteration of the second run, with its own switch value.
Twin_run(t, acc, presses, sw, order) ==
  LET w0 == [lid |-> twin.lid, alarm |-> twin.alarm, timer |-> twin.timer,
             cp |-> twin.cp, obs |-> Obs_start(obs, Classify(acc), t),
             ret |-> FALSE, exc |-> FALSE]
      w1 == Timer_call(w0, t, acc, presses, sw, order)
  IN  twin' = [lid |-> w1.lid, alarm |-> w1.alarm, timer |-> w1.timer,
               cp |-> w1.cp, switch |-> sw,
               start_tone |-> w1.obs.start_tone]

\* The state after construction when the clock, counting milliseconds from
\* an epoch of its own in ClockBits bits, is two hours short of wrapping.
ClockModulus == 2 ^ ClockBits

WrapBoot == ClockModulus - 2 * one_hour_ms

InitWrap ==
  /\ now = WrapBoot
  /\ lid = Lid_init
  /\ alarm = Alarm_init
  /\ timer = Timer_init(WrapBoot)
  /\ cp = [tone |-> FALSE, pixels |-> "off"]
  /\ obs = Obs_init
  /\ twin = Twin_init

\* An iteration of the program alone.
Tick(t, acc, presses, sw, order) ==
  Run(t, acc, presses, sw, order) /\ UNCHANGED twin

\* An iteration of both runs on the same clock reading, sample and
\* buttons, with switch sw in the first and sw2 in the second.
PairTick(t, acc, presses, sw, sw2, order) ==
  Run(t, acc, presses, sw, order) /\ Twin_run(t, acc, presses, sw2, order)

(***************************************************************************)
(* Inputs                                                                  *)
(***************************************************************************)
\* Acceleration samples: lid up (device on its edge), lid down (device
\* flat), lid halfway (neither rule matches).
Accels == {<<0, -10, 1>>, <<1, 0, 10>>, <<0, 7, -7>>}

Buttons == {"a", "b"}

Orders == {<<"a", "b">>, <<"b", "a">>}

OrdersOf(presses) == IF presses = Buttons THEN Orders ELSE {<<"a", "b">>}

\* Clock readings 50 ms apart, from boot.
LidGrid == {BootTime + 50 * k : k \in 0..MaxLidSteps}

\* Clock readings around the colour thresholds: 3 h 59 min after boot, the
\* full hours 4, 8 and 12 and one second after each, and the full hours
\* after 12.
LightsGrid ==
  {BootTime, BootTime + 239 * 60000}
  \cup {BootTime + h * one_hour_ms + e : h \in {4, 8, 12}, e \in {0, 1000}}
  \cup {BootTime + h * one_hour_ms : h \in 12..MaxHours}

\* Clock readings around the alarm threshold: each full hour from 12 on,
\* and one second after the hours 12 and 13.
TimerGrid ==
  {BootTime}
  \cup {BootTime + h * one_hour_ms : h \in 12..MaxHours}
  \cup {BootTime + h * one_hour_ms + 1000 : h \in {12, 13}}

\* Clock readings one second after every full hour from the alarm
\* threshold on.
AlarmGrid ==
  {BootTime + alarm_threshold_ms + h * one_hour_ms + 1000 :
     h \in 0..MaxAlarmHours}

\* Clock readings one hour apart, from boot: all below the alarm threshold.
ButtonGrid == {BootTime + k * one_hour_ms : k \in 0..MaxButtonHours}

\* Clock readings 50 ms apart, from boot.
BounceGrid == {BootTime + 50 * k : k \in 0..MaxBounceSteps}

\* The first clock reading past the alarm threshold, and the clock
\* readings of the pattern specification: boot, and every millisecond of
\* the MaxPatternMs after PatternStart and after the hour that follows it.
PatternStart == BootTime + alarm_threshold_ms + 1

InPatternGrid(t) ==
  \/ t = BootTime
  \/ \E f \in {0, 1} :
        /\ t >= PatternStart + f * one_hour_ms
        /\ t <= PatternStart + f * one_hour_ms + MaxPatternMs

\* Times one hour apart from a boot at WrapBoot, as the clock counts them
\* before it wraps; the clock reads such a time modulo ClockModulus.
WrapGrid == {WrapBoot + k * one_hour_ms : k \in 0..MaxWrapHours}

\* The time at which the clock reads r, in the span of WrapGrid.
Unwrapped(r) == IF r >= WrapBoot THEN r ELSE r + ClockModulus

\* Clock readings half an hour apart, from the alarm threshold.
SnoozeGrid ==
  {BootTime + alarm_threshold_ms + k * (one_hour_ms \div 2) :
     k \in 0..MaxSnoozeSteps}

\* Clock readings 200 ms apart, from one second after the alarm threshold.
BeepGrid ==
  {BootTime + alarm_threshold_ms + 1000 + 200 * k : k \in 0..MaxBeepSteps}

(***************************************************************************)
(* Specifications                                                          *)
(***************************************************************************)
\* The lid alone: fast polling, no buttons.
LidTick ==
  \E t \in LidGrid, acc \in Accels :
     t > now /\ Tick(t, acc, {}, FALSE, <<"a", "b">>)

SpecLid == Init /\ [][LidTick]_vars

\* The timer with its buttons, polled around the thresholds, switch off.
TimerTick ==
  \E t \in TimerGrid, acc \in Accels, presses \in SUBSET Buttons :
     \E order \in OrdersOf(presses) :
        t > now /\ Tick(t, acc, presses, FALSE, order)

Next == TimerTick

Spec == Init /\ [][Next]_vars

\* The indicator alone: polled around the colour thresholds, no buttons.
LightsTick ==
  \E t \in LightsGrid, acc \in Accels :
     t > now /\ Tick(t, acc, {}, FALSE, <<"a", "b">>)

SpecLights == Init /\ [][LightsTick]_vars

\* The alarm left to escalate: hourly polling, lid samples, no buttons.
AlarmTick ==
  \E t \in AlarmGrid, acc \in Accels, sw \in BOOLEAN :
     t > now /\ Tick(t, acc, {}, sw, <<"a", "b">>)

SpecAlarm == Init /\ [][AlarmTick]_vars

\* The alarm while it beeps: polled every 200 ms or slower, lid samples and
\* switch, no buttons.
BeepTick ==
  \E t \in BeepGrid, acc \in Accels, sw \in BOOLEAN :
     t > now /\ Tick(t, acc, {}, sw, <<"a", "b">>)

SpecBeep == Init /\ [][BeepTick]_vars

\* The buttons in the hours after boot: hourly polling, lid samples, both
\* buttons, switch off.
ButtonTick ==
  \E t \in ButtonGrid, acc \in Accels, presses \in SUBSET Buttons :
     \E order \in OrdersOf(presses) :
        t > now /\ Tick(t, acc, presses, FALSE, order)

SpecButtons == Init /\ [][ButtonTick]_vars

\* Snooze after snooze: half-hourly polling with the lid down, button B
\* pressed or not, switch off.
SnoozeTick ==
  \E t \in SnoozeGrid, presses \in {{}, {"b"}} :
     /\ t > now
     /\ \A u \in SnoozeGrid : ~(now < u /\ u < t)
     /\ Tick(t, <<1, 0, 10>>, presses, FALSE, <<"a", "b">>)

SpecSnooze == Init /\ [][SnoozeTick]_vars

\* Two runs while the alarm beeps: the same clock readings and lid samples,
\* no buttons, the switch off throughout in the first and at any value in
\* each iteration of the second.
MuteTick ==
  \E t \in BeepGrid, acc \in Accels, sw2 \in BOOLEAN :
     t > now /\ PairTick(t, acc, {}, FALSE, sw2, <<"a", "b">>)

SpecMute == Init /\ [][MuteTick]_vars

\* The timer across a wrap of its clock: hourly polling, lid samples, no
\* buttons, switch off.
WrapTick ==
  \E t \in WrapGrid, acc \in Accels :
     /\ t > Unwrapped(now)
     /\ Tick(t % ClockModulus, acc, {}, FALSE, <<"a", "b">>)

SpecWrap == InitWrap /\ [][WrapTick]_vars

\* A bouncing lid that settles: a sample every 50 ms, RAISED or LOWERED;
\* the classification alternates from sample to sample for as long as it
\* will, and once two samples in a row agree it stays what it is.
BounceTick ==
  \E t \in BounceGrid, acc \in {<<0, -10, 1>>, <<1, 0, 10>>} :
     /\ t = now + 50
     /\ (obs.run_cls # None /\ now - obs.run_start >= 50)
          => Classify(acc) = obs.run_cls
     /\ Tick(t, acc, {}, FALSE, <<"a", "b">>)

SpecBounce == Init /\ [][BounceTick]_vars

\* The alarm stepped once per millisecond while it beeps, with the lid down
\* and the switch off: the clock is read a millisecond later, and jumps
\* only from boot to PatternStart and from the end of the first stretch to
\* the next firing.
PatternTick ==
  \E t \in {now + 1, PatternStart, PatternStart + one_hour_ms} :
     /\ InPatternGrid(t)
     /\ \/ t = now + 1
        \/ now = BootTime /\ t = PatternStart
        \/ now = PatternStart + MaxPatternMs /\ t = PatternStart + one_hour_ms
     /\ Tick(t, <<1, 0, 10>>, {}, FALSE, <<"a", "b">>)

SpecPattern == Init /\ [][PatternTick]_vars

(***************************************************************************)
(* Properties                                                              *)
(***************************************************************************)
\* An iteration has run: it either raised or reached update_lights.
Ticked == obs.fault \/ obs.sev # "none"

Elapsed == now - timer.last_raised_time

\* C3: an iteration whose sample is classified neither RAISED nor LOWERED
\* raises no error and runs its indicator update and its button poll like
\* any other iteration.
C3_IndeterminateIsNoOp ==
  (Ticked /\ obs.cur = None) =>
     (~obs.fault /\ obs.sev # "none" /\ obs.polled)

\* C4: the confirmed state changes to S only when every classified sample
\* since a sample taken at least 100 ms earlier was S; a sample classified
\* differently from the one before it promotes nothing, and either becomes
\* the candidate with the current time as its first-seen time or clears
\* the candidate.
C4_PromotionNeedsHeldWindow ==
  /\ obs.promoted # None =>
        /\ lid.state = obs.promoted
        /\ obs.run_cls = obs.promoted
        /\ obs.run_start <= now - 100
  /\ obs.restarted =>
        /\ obs.promoted = None
        /\ \/ lid.pending_state = None /\ lid.pending_time = None
           \/ lid.pending_state = obs.cur /\ lid.pending_time = now

\* A promotion into LOWERED that follows a promotion into RAISED.
C4_Witness == obs.promoted = LOWERED /\ obs.promotions = 1

\* C5: the edge query is TRUE only in the iteration of a promotion into
\* RAISED, the edge is cleared by every query, and the TRUE results never
\* outnumber the promotions into RAISED.
C5_EdgeOncePerPromotion ==
  /\ lid.new_state = None
  /\ obs.edge => obs.promoted = RAISED
  /\ obs.edges <= obs.promotions

\* The edge query has been TRUE twice, and FALSE in a later iteration with
\* the lid still RAISED.
C5_Witness ==
  obs.edges = 2 /\ ~obs.fault /\ ~obs.edge /\ lid.state = RAISED

\* C1: at the end of an iteration that ran to its end and fired no button
\* action, the alarm is active exactly when more than the alarm threshold
\* has elapsed since the baseline and the lid is not confirmed RAISED.
C1_AlarmIffOverdue ==
  (obs.sev # "none" /\ obs.new_presses = {}) =>
     (alarm.alarm_state <=>
        (Elapsed > alarm_threshold_ms /\ lid.state # RAISED))

\* C2: whenever the alarm is idle the tone output is off.
C2_IdleIsSilent == ~alarm.alarm_state => ~cp.tone

\* C6: in an iteration that reaches update_lights with the lid not
\* confirmed RAISED, the indicator is green up to 4 h elapsed, yellow above
\* 4 h up to 8 h, red above 8 h up to 12 h, and above 12 h the alarm is
\* driven; with the lid confirmed RAISED the indicator is off.
C6_SeverityByElapsed ==
  obs.sev # "none" =>
     IF lid.state = RAISED
       THEN obs.sev = "off" /\ timer.color = "off" /\ cp.pixels = "off"
       ELSE /\ Elapsed <= 14400000 =>
                 obs.sev = "green" /\ cp.pixels = "green"
            /\ (14400000 < Elapsed /\ Elapsed <= 28800000) =>
                 obs.sev = "yellow" /\ cp.pixels = "yellow"
            /\ (28800000 < Elapsed /\ Elapsed <= 43200000) =>
                 obs.sev = "red" /\ cp.pixels = "red"
            /\ 43200000 < Elapsed =>
                 /\ obs.sev = "alarm" /\ alarm.alarm_state
                 /\ cp.pixels = IF alarm.led_state THEN "red" ELSE "off"
            /\ Elapsed = 14340000 => obs.sev = "green"
            /\ Elapsed = 14401000 => obs.sev = "yellow"

\* The indicator is yellow at 4 h 0 min 1 s elapsed.
C6_Witness ==
  Elapsed = 14401000 /\ obs.sev = "yellow" /\ lid.state # RAISED

\* C7: trigger() runs only when the alarm is idle; while the alarm stays
\* active no iteration triggers again, raises the audible interval or moves
\* the schedule back; the interval returns to the maximum only in an
\* iteration that deactivates.  Before any lid raise or button action the
\* alarm has triggered once if it is active and never otherwise, and not
\* before 12 h have been exceeded.
C7_TriggerOncePerActivation ==
  /\ [][/\ obs'.triggered => ~alarm.alarm_state
        /\ obs'.triggers = obs.triggers + (IF obs'.triggered THEN 1 ELSE 0)
        /\ (alarm.alarm_state /\ ~obs'.deactivated) =>
              /\ ~obs'.triggered
              /\ alarm'.alarm_state
              /\ alarm'.audible_alarm_interval_ms
                    <= alarm.audible_alarm_interval_ms
              /\ alarm'.next_audible_alarm_time_ms
                    >= alarm.next_audible_alarm_time_ms
              /\ alarm'.next_visible_alarm_time_ms
                    >= alarm.next_visible_alarm_time_ms
        /\ (alarm'.audible_alarm_interval_ms = 3600000
            /\ alarm.audible_alarm_interval_ms # 3600000) =>
              obs'.deactivated]_vars
  /\ [](~obs.events =>
          /\ obs.triggers = IF alarm.alarm_state THEN 1 ELSE 0
          /\ obs.sev = "alarm" => obs.triggers = 1
          /\ obs.triggers = 1 => Elapsed > 43200000)

\* A second trigger, after a deactivation: the first firing has halved the
\* interval from the maximum again.
C7_Witness ==
  /\ obs.triggers = 2 /\ obs.triggered
  /\ alarm.audible_alarm_interval_ms = 1800000

\* C8: the audible interval lies between 1 minute and 1 hour and is 1 hour
\* while the alarm is idle and when it triggers; a firing replaces it by
\* the larger of its half and 1 minute, nothing else changes it but a
\* deactivation, and at 1 minute it stays until a deactivation.
C8_IntervalHalvesToFloor ==
  /\ [](/\ 60000 <= alarm.audible_alarm_interval_ms
        /\ alarm.audible_alarm_interval_ms <= 3600000
        /\ ~alarm.alarm_state => alarm.audible_alarm_interval_ms = 3600000)
  /\ [][/\ obs'.triggered => alarm.audible_alarm_interval_ms = 3600000
        /\ obs'.fired =>
              alarm'.audible_alarm_interval_ms =
                 IF alarm.audible_alarm_interval_ms \div 2 >= 60000
                   THEN alarm.audible_alarm_interval_ms \div 2
                   ELSE 60000
        /\ (~obs'.fired /\ ~obs'.deactivated) =>
              alarm'.audible_alarm_interval_ms
                 = alarm.audible_alarm_interval_ms
        /\ ~obs'.deactivated =>
              alarm'.audible_alarm_interval_ms
                 <= alarm.audible_alarm_interval_ms
        /\ (alarm.audible_alarm_interval_ms = 60000 /\ ~obs'.deactivated) =>
              alarm'.audible_alarm_interval_ms = 60000]_vars

\* The seventh firing of one activation: the interval was at the floor
\* already (3600000, 1800000, 900000, 450000, 225000, 112500 and 60000 have
\* been added to the time of the trigger).
C8_Witness ==
  /\ obs.fired /\ obs.triggers = 1
  /\ alarm.audible_alarm_interval_ms = 60000
  /\ alarm.next_audible_alarm_time_ms =
        BootTime + alarm_threshold_ms + 1000 + 7147500

\* C9: after a snooze at time t that no undo, snooze press or lid raise
\* has followed, the baseline is t - 11 h and the baseline the snooze found
\* is the newest history entry; the elapsed time is in the alarm range
\* exactly at the times after t + 1 h, and an iteration after the press
\* that reaches update_lights with the lid not RAISED drives the alarm
\* exactly when its time is after t + 1 h.
C9_SnoozeGrantsOneHour ==
  obs.snooze_at # None =>
     /\ timer.last_raised_time = obs.snooze_at - (43200000 - 3600000)
     /\ Len(timer.history) > 0
     /\ obs.snoozed =>
           timer.history[Len(timer.history)] = obs.snooze_from
     /\ Severity(Elapsed) = "alarm" <=> now > obs.snooze_at + 3600000
     /\ (~obs.snoozed /\ obs.sev \notin {"none", "off"}) =>
           (obs.sev = "alarm" <=> now > obs.snooze_at + 3600000)

\* A snooze pressed past the alarm threshold, and the alarm driven again in
\* an iteration more than an hour after it.
C9_Witness ==
  /\ obs.snooze_at # None /\ Len(timer.history) > 0
  /\ obs.snooze_at - timer.history[Len(timer.history)] > alarm_threshold_ms
  /\ now > obs.snooze_at + one_hour_ms
  /\ obs.sev = "alarm"

\* C10 as stated: a snooze press records the snooze baseline only when more
\* than the alarm threshold has elapsed since the baseline in effect.
C10_SnoozeOnlyInAlarm ==
  obs.snoozed => obs.snooze_elapsed > 43200000

\* C10 amended: a snooze press records the baseline now - 11 h exactly when
\* at least the alarm threshold has elapsed since the baseline in effect
\* (the one its quiet undo restored, if any); otherwise it returns with the
\* baseline it was entered with.
C10_SnoozeFromThreshold ==
  obs.snooze_ran =>
     /\ obs.snoozed <=> obs.snooze_elapsed >= 43200000
     /\ obs.snoozed => obs.snooze_to = now - (43200000 - 3600000)
     /\ ~obs.snoozed => obs.snooze_to = obs.snooze_entry

\* A snooze recorded at exactly the alarm threshold.
C10_Witness == obs.snoozed /\ obs.snooze_elapsed = alarm_threshold_ms

\* C11: a snooze press that finds the elapsed time since the baseline (the
\* one its undo restored, when the lid is RAISED) below the alarm threshold
\* returns with the baseline and the whole history, contents, order and
\* length, as they were when it was entered; this holds with the lid
\* raised or not and with the history empty or not.
C11_EarlySnoozeChangesNothing ==
  (obs.snooze_ran /\ obs.snooze_elapsed < alarm_threshold_ms)
     => /\ ~obs.snoozed
        /\ obs.snooze_to = obs.snooze_entry
        /\ obs.snooze_hist_to = obs.snooze_hist

\* An early snooze press with the lid raised whose undo took an entry from
\* the history and whose re-push put it back.
C11_Witness ==
  /\ obs.snooze_ran
  /\ obs.snooze_elapsed < alarm_threshold_ms
  /\ lid.state = RAISED
  /\ obs.snooze_from # obs.snooze_entry
  /\ Len(obs.snooze_hist) > 0
  /\ obs.snooze_to = obs.snooze_entry


\* C12: an undo that finds the history non-empty removes its most recent
\* entry and makes it the baseline, returns the baseline it replaced and
\* does not push that one back, so the history is one entry shorter; an
\* undo that finds the history empty leaves the baseline and the history as
\* they are and returns nothing.
C12_UndoPopsOrDoesNothing ==
  obs.undo.ran =>
    IF Len(obs.undo.hist) > 0
      THEN /\ obs.undo.to = obs.undo.hist[Len(obs.undo.hist)]
           /\ obs.undo.hist_to =
                 SubSeq(obs.undo.hist, 1, Len(obs.undo.hist) - 1)
           /\ Len(obs.undo.hist_to) = Len(obs.undo.hist) - 1
           /\ obs.undo.ret = obs.undo.from
      ELSE /\ obs.undo.to = obs.undo.from
           /\ obs.undo.hist_to = <<>>
           /\ obs.undo.ret = None

\* A press of button A alone that found two entries and left the older.
C12_Witness ==
  /\ obs.new_presses = {"a"}
  /\ obs.undo.ran
  /\ Len(obs.undo.hist) = 2
  /\ timer.history = <<obs.undo.hist[1]>>
  /\ timer.last_raised_time = obs.undo.hist[2]
  /\ obs.undo.ret # timer.last_raised_time

\* The history after pushing baseline b onto history h at capacity: the
\* oldest entry gone, the others in order, b the newest.
Pushed(h, b) ==
  IF Len(h) >= HistoryCapacity
    THEN Append(SubSeq(h, 2, Len(h)), b)
    ELSE Append(h, b)

\* C13: the history never has more than 10 entries; a push onto a history
\* of 10 removes the oldest entry, keeps the other nine in order and appends
\* the pushed baseline as the newest.  The push observed is that of a
\* snooze with the lid not raised.
C13_HistoryKeepsNewestTen ==
  /\ Len(timer.history) <= HistoryCapacity
  /\ (obs.snoozed /\ lid.state # RAISED)
        => obs.snooze_hist_to = Pushed(obs.snooze_hist, obs.snooze_entry)

\* A snooze that pushed onto a full history: the boot baseline, which was
\* the oldest entry, is gone.
C13_Witness ==
  /\ obs.snoozed
  /\ Len(obs.snooze_hist) = HistoryCapacity
  /\ obs.snooze_hist[1] = BootTime
  /\ Len(timer.history) = HistoryCapacity
  /\ timer.history[1] = obs.snooze_hist[2]
  /\ timer.history[HistoryCapacity] = obs.snooze_entry

\* C14: an iteration reports a RAISED edge exactly when it promoted the lid
\* into RAISED; it then leaves the alarm idle with the audible interval at
\* its maximum and, when no button was newly pressed, has pushed the old
\* baseline and made the clock reading the baseline.  An iteration without
\* a RAISED edge and without a new press, a promotion into LOWERED
\* included, leaves the baseline and the history as they were.
C14_RaisedEdgeRecordsOnce ==
  [][/\ obs'.edge <=> (obs'.promoted = RAISED)
     /\ obs'.edge
          => /\ ~alarm'.alarm_state
             /\ alarm'.audible_alarm_interval_ms =
                  audible_alarm_interval_max_ms
     /\ (obs'.edge /\ obs'.new_presses = {})
          => /\ timer'.history =
                  Pushed(timer.history, timer.last_raised_time)
             /\ timer'.last_raised_time = now'
     /\ (~obs'.edge /\ obs'.new_presses = {})
          => /\ timer'.history = timer.history
             /\ timer'.last_raised_time = timer.last_raised_time
    ]_vars

\* The first lid raise since boot, after the alarm was triggered: the
\* alarm is idle again and the boot baseline is in the history.
C14_Witness ==
  /\ obs.edge
  /\ obs.edges = 1
  /\ obs.triggers = 1
  /\ obs.new_presses = {}
  /\ timer.last_raised_time = now
  /\ timer.history = <<BootTime>>
  /\ ~alarm.alarm_state

\* C15: a poll runs the action of exactly the buttons that are pressed now
\* and were not in the pressed set of the previous poll, so a button held
\* from one poll to the next acts once, and acts again only after a poll
\* has seen it released; an iteration that does not poll runs no action and
\* leaves the remembered pressed set alone.
C15_ActionOnNewPressOnly ==
  [][IF obs'.polled
       THEN obs'.actions = timer'.prev_presses \ timer.prev_presses
       ELSE obs'.actions = {} /\ timer'.prev_presses = timer.prev_presses
    ]_vars

\* A poll that finds button B still held and button A newly pressed: undo
\* runs, snooze does not.
C15_Witness ==
  /\ obs.polled
  /\ timer.prev_presses = {"a", "b"}
  /\ obs.actions = {"a"}
  /\ obs.undo.ran
  /\ ~obs.snooze_ran

\* The alarm's bookkeeping: every field but the record of the tone that is
\* sounding.
Bookkeeping(a) == [a EXCEPT !.actually_beeping = FALSE]

\* C16: a run with any switch values and the run that reads the same
\* clock, lid samples and buttons with the switch off (hence any two runs
\* that differ in the switch values only) have the same alarm bookkeeping
\* (active flag, next audible firing, audible interval, beep index, beep
\* phase, LED phase and the times of the next LED and beep steps), the
\* same lid, the same baseline and history and the same pixels; and an
\* iteration taken with the switch engaged starts no tone.
C16_MuteChangesToneOnly ==
  /\ Bookkeeping(twin.alarm) = Bookkeeping(alarm)
  /\ twin.timer = timer
  /\ twin.lid = lid
  /\ twin.cp.pixels = cp.pixels
  /\ twin.switch => ~twin.start_tone

\* The second beep of a firing: sounding in the run whose switch is off,
\* silent in the run whose switch is engaged.
C16_Witness ==
  /\ alarm.alarm_state
  /\ alarm.beep_state
  /\ alarm.beep_num = 1
  /\ obs.start_tone
  /\ cp.tone
  /\ twin.switch
  /\ ~twin.cp.tone
  /\ twin.alarm.beep_state

\* C17: the elapsed time is the difference of the clock reading and the
\* baseline modulo the clock's range, so that after the clock has wrapped
\* the severity an iteration acts upon is still that of the time really
\* elapsed and does not fall back to green.
C17_ElapsedIsModular ==
  obs.sev \in {"green", "yellow", "red", "alarm"}
     => obs.sev = Severity((now - timer.last_raised_time) % ClockModulus)

\* The sample of this iteration is classified and ends a span of at least
\* 100 ms in which every classified sample had its classification.
Held ==
  /\ obs.cur # None
  /\ obs.cur = obs.run_cls
  /\ now - obs.run_start >= debounce_threshold_ms

\* A classification seen on every classified sample of a span of at least
\* 100 ms is the confirmed state at the end of the span, with no candidate
\* left; a promotion changes the confirmed state, and it is a promotion
\* into RAISED exactly when the iteration reports a RAISED edge.
C18_HeldIsConfirmed ==
  /\ Held => /\ lid.state = obs.cur
             /\ lid.pending_state = None
  /\ obs.edge <=> (obs.promoted = RAISED)

\* C18: a classification different from the confirmed state that is seen
\* on every classified sample of a span of at least 100 ms is promoted, and
\* a promotion into RAISED is recorded as exactly one edge.  With samples
\* 50 ms apart: while RAISED and LOWERED alternate nothing is promoted, and
\* a hold of one of them that follows is promoted once, at its third
\* sample, with one edge for RAISED and none for LOWERED.
C18_HeldClassIsPromotedOnce ==
  /\ C18_HeldIsConfirmed
  /\ [][obs'.promoted # None => lid.state # lid'.state]_vars
  /\ [](IF obs.run_cls # None /\ now - obs.run_start >= debounce_threshold_ms
          THEN /\ lid.state = obs.run_cls
               /\ obs.promoted # None
                    <=> now - obs.run_start = debounce_threshold_ms
               /\ obs.promotions = (IF obs.run_cls = RAISED THEN 1 ELSE 0)
               /\ obs.edges = obs.promotions
          ELSE /\ lid.state = None
               /\ obs.promoted = None
               /\ obs.promotions = 0
               /\ obs.edges = 0)

\* RAISED and LOWERED have alternated for 500 ms, from the sample 50 ms
\* after boot to the one at 550 ms, where a hold of RAISED began; it is now
\* 150 ms old, was promoted 50 ms ago, and one edge has been reported.
C18_Witness ==
  /\ now = BootTime + 700
  /\ obs.run_cls = RAISED
  /\ obs.run_start = BootTime + 550
  /\ lid.state = RAISED
  /\ obs.promoted = None
  /\ obs.promotions = 1
  /\ obs.edges = 1

\* The time since the last audible firing, the firings being at
\* PatternStart and one hour later.
Phase == (now - PatternStart) % one_hour_ms

\* p milliseconds after a firing the tone is due: p is in one of three
\* periods of 600 ms that start 1600 ms apart.
ToneDue(p) == \E k \in 0..2 : k * 1600 <= p /\ p < k * 1600 + 600

\* C19: while the alarm stays active and is stepped at least once per
\* millisecond with the switch off, each audible firing sounds the tone for
\* exactly three periods of 600 ms separated by 1000 ms of silence,
\* starting with the firing; after the third the tone is off until the
\* next firing.
C19_ThreeBeepsPerFiring ==
  now >= PatternStart =>
    /\ alarm.alarm_state
    /\ cp.tone <=> ToneDue(Phase)
    /\ obs.fired => Phase = 0
    /\ obs.start_tone => Phase \in {0, 1600, 3200}
    /\ obs.stop_tone => Phase \in {600, 2200, 3800}

\* The third beep of the second firing starts.
C19_Witness ==
  /\ now = PatternStart + one_hour_ms + 3200
  /\ obs.start_tone
  /\ cp.tone
  /\ alarm.beep_num = 2
  /\ alarm.audible_alarm_interval_ms = 900000

\* C20: with a clock that never runs backwards, after any lid raises,
\* undos and snoozes the history is in non-decreasing order from oldest to
\* newest, its newest entry is not later than the baseline and the
\* baseline is not later than the clock reading; so an undo never moves
\* the baseline forward.
C20_HistoryOrdered ==
  /\ \A i \in 1..(Len(timer.history) - 1) :
        timer.history[i] <= timer.history[i + 1]
  /\ Len(timer.history) > 0
       => timer.history[Len(timer.history)] <= timer.last_raised_time
  /\ timer.last_raised_time <= now
  /\ obs.undo.ran => obs.undo.to <= obs.undo.from

\* A press of button A after a snooze and a lid raise: two entries were
\* there, the undo took the newer as the baseline, an earlier time than
\* the baseline it replaced.
C20_Witness ==
  /\ obs.actions = {"a"}
  /\ Len(obs.undo.hist) = 2
  /\ obs.undo.hist[1] < obs.undo.hist[2]
  /\ obs.undo.to < obs.undo.from
  /\ timer.history = <<BootTime>>
  /\ BootTime < timer.last_raised_time
  /\ timer.last_raised_time < now

=============================================================================
